---- MODULE Spec2Model ----
(***************************************************************************)
(* RMA authorization challenge-response (common/rma_auth.c).               *)
(*                                                                         *)
(* State: the four file-scope statics of rma_auth.c (challenge, authcode,  *)
(* tries_left, last_challenge_time), the system clock read by get_time(),  *)
(* and the observable result of the last call (return value, vendor        *)
(* command reply, console output).  History variables record what earlier  *)
(* calls returned, so that properties about sequences of calls can be      *)
(* stated over single states and single steps.                             *)
(***************************************************************************)
EXTENDS Integers, Sequences, FiniteSets, TLC

(***************************************************************************)
(* Program constants                                                       *)
(***************************************************************************)
\* The clock is counted in whole seconds.
SECOND == 1
CHALLENGE_INTERVAL == 10 * SECOND
MAX_AUTHCODE_TRIES == 3
RMA_AUTHCODE_CHARS == 8
RMA_AUTHCODE_BUF_SIZE == RMA_AUTHCODE_CHARS + 1
RMA_CHALLENGE_CHARS == 80
RMA_CHALLENGE_BUF_SIZE == RMA_CHALLENGE_CHARS + 1

\* ec error codes and vendor command return codes, kept symbolic
EC_SUCCESS == "EC_SUCCESS"
EC_ERROR_UNKNOWN == "EC_ERROR_UNKNOWN"
EC_ERROR_TIMEOUT == "EC_ERROR_TIMEOUT"
EC_ERROR_INVAL == "EC_ERROR_INVAL"
EC_ERROR_ACCESS_DENIED == "EC_ERROR_ACCESS_DENIED"
VENDOR_RC_SUCCESS == "VENDOR_RC_SUCCESS"
VENDOR_RC_BOGUS_ARGS == "VENDOR_RC_BOGUS_ARGS"
VENDOR_RC_RESPONSE_TOO_BIG == "VENDOR_RC_RESPONSE_TOO_BIG"
VENDOR_RC_INTERNAL_ERROR == "VENDOR_RC_INTERNAL_ERROR"

(***************************************************************************)
(* Bounds of the model                                                     *)
(***************************************************************************)
\* The clock stops advancing at MaxTime seconds after boot.
MaxTime == 20
\* Number of distinct ephemeral key pairs the random source can produce.
NumKeys == 2

Keys == 1..NumKeys

(***************************************************************************)
(* Buffers and encodings                                                   *)
(***************************************************************************)
\* memset(buf, 0, n)
Zeroed(n) == [i \in 1..n |-> 0]

AllZero(buf) == \A i \in 1..Len(buf) : buf[i] = 0

\* A C string is empty when its first byte is the terminator.
IsEmptyStr(buf) == buf[1] = 0

\* The base-32 alphabet, as character codes: 'A'..'Z', '2'..'7'.
Base32Char(v) == IF v < 26 THEN 65 + v ELSE 50 + (v - 26)

Pow2(n) == IF n = 0 THEN 1 ELSE IF n = 1 THEN 2 ELSE IF n = 2 THEN 4
           ELSE IF n = 3 THEN 8 ELSE IF n = 4 THEN 16 ELSE IF n = 5 THEN 32
           ELSE IF n = 6 THEN 64 ELSE 128

\* Bit j (0 = first, msb-first within each byte) of a byte sequence.
BitAt(bytes, j) == (bytes[(j \div 8) + 1] \div Pow2(7 - (j % 8))) % 2

\* The s-th (0-based) 5-bit symbol of a byte sequence.
SymbolAt(bytes, s) ==
    16 * BitAt(bytes, 5 * s) + 8 * BitAt(bytes, 5 * s + 1)
    + 4 * BitAt(bytes, 5 * s + 2) + 2 * BitAt(bytes, 5 * s + 3)
    + BitAt(bytes, 5 * s + 4)

\* base32_encode(dest, destlen, src, srcbits, 0): srcbits / 5 symbols and a
\* terminator, the rest of dest untouched (dest is zeroed by the caller).
base32_encode_plain(destlen, bytes, nsym) ==
    [i \in 1..destlen |-> IF i <= nsym THEN Base32Char(SymbolAt(bytes, i - 1)) ELSE 0]

\* The first n bytes of a buffer.
Prefix(buf, n) == [i \in 1..n |-> buf[i]]

\* The value of a base-32 character, the inverse of Base32Char.
Base32Value(ch) == IF ch >= 65 THEN ch - 65 ELSE 26 + (ch - 50)

\* The checksum symbol that closes group g (0-based) of `every` data symbols.
GroupChecksum(bytes, g, every) ==
    LET sum[j \in 0..every] ==
            IF j = 0 THEN g ELSE (sum[j - 1] + SymbolAt(bytes, g * every + j - 1)) % 32
    IN  sum[every]

\* base32_encode(dest, destlen, src, srcbits, every) with every > 0: nsym
\* data symbols, a checksum symbol after each group of `every` of them, and
\* a terminator.
base32_encode_crc(destlen, bytes, nsym, every) ==
    LET total == nsym + (nsym \div every)
    IN  [i \in 1..destlen |->
            IF i > total THEN 0
            ELSE LET g == (i - 1) \div (every + 1)
                     j == (i - 1) % (every + 1)
                 IN  IF j < every THEN Base32Char(SymbolAt(bytes, g * every + j))
                     ELSE Base32Char(GroupChecksum(bytes, g, every))]

\* What the server reads back from a challenge text: the data symbols with
\* the checksum symbols dropped, as nbytes bytes.
base32_decode_crc(text, nbytes, every) ==
    LET sym(s) == Base32Value(text[s + (s \div every) + 1])
        bit(b) == (sym(b \div 5) \div Pow2(4 - (b % 5))) % 2
    IN  [n \in 1..nbytes |->
            128 * bit(8 * n - 8) + 64 * bit(8 * n - 7) + 32 * bit(8 * n - 6)
            + 16 * bit(8 * n - 5) + 8 * bit(8 * n - 4) + 4 * bit(8 * n - 3)
            + 2 * bit(8 * n - 2) + bit(8 * n - 1)]

(***************************************************************************)
(* Stand-ins for the crypto libraries: a Diffie-Hellman exchange in a      *)
(* small group for X25519, and a position-sensitive checksum for           *)
(* HMAC-SHA-256.  Keys and tags are 32-byte buffers.                       *)
(***************************************************************************)
DhPrime == 23
DhBase == 5
KEY_SIZE == 32

DhPow(b, e) ==
    LET pw[n \in 0..e] == IF n = 0 THEN 1 ELSE (pw[n - 1] * b) % DhPrime
    IN  pw[e]

KeyBytes(v) == [i \in 1..KEY_SIZE |-> IF i = 1 THEN v ELSE 0]

\* The private key the random source yields on draw k.
PrivateKey(k) == KeyBytes(k + 1)

\* The public key of a private key.
X25519_public(priv) == KeyBytes(DhPow(DhBase, priv[1]))

\* X25519(out, priv, peer_pub)
X25519(priv, pub) == KeyBytes(DhPow(pub[1], priv[1]))

\* The private keys a server can hold; a device is built with the public
\* half of its server's key pair.
ServerPrivateKeys == {KeyBytes(6), KeyBytes(9)}
DefaultServerKey == KeyBytes(6)
server_key_id == 3
RMA_CHALLENGE_VERSION == 0

\* RMA_CHALLENGE_VKID_BYTE(version, key id)
RMA_CHALLENGE_VKID_BYTE(version, id) == 16 * version + (id % 16)

\* The sum of the bytes seq[lo..hi], each weighted by its position.
RECURSIVE WeightedSum(_, _, _)
WeightedSum(seq, lo, hi) ==
    IF lo > hi THEN 0
    ELSE IF lo = hi THEN seq[lo] * (1 + (lo % 30))
    ELSE LET mid == (lo + hi) \div 2
         IN  WeightedSum(seq, lo, mid) + WeightedSum(seq, mid + 1, hi)

\* get_hmac_sha256(out, secret, secret_size, ch_ptr, ch_size): a 32-byte tag.
get_hmac_sha256(key, msg) ==
    LET all == key \o msg
        d == WeightedSum(all, 1, Len(all)) % 31
    IN  [i \in 1..KEY_SIZE |->
            IF i = 1 THEN 200 ELSE IF i = 2 THEN 17 ELSE IF i = 3 THEN 99
            ELSE IF i = 4 THEN 5 ELSE IF i = 5 THEN 1 + d ELSE (d + i) % 256]

(***************************************************************************)
(* The challenge record, struct rma_challenge                              *)
(***************************************************************************)
BOARD_ID_SIZE == 4
DEVICE_ID_SIZE == 8

\* The board types and chip unique ids a device can have: an id shorter
\* than the device_id field, one that fills it, and one that exceeds it.
BoardTypes == {<<10, 11, 12, 13>>, <<1, 0, 0, 0>>}
UniqueIds == {<<9, 8, 7>>, <<1, 2, 3, 4, 5, 6, 7, 8>>, [i \in 1..16 |-> 255]}
DefaultBoardType == <<10, 11, 12, 13>>
DefaultUniqueId == <<1, 2, 3, 4, 5, 6, 7, 8>>

\* hash_buffer(dest, dest_size, buffer, buf_size)
hash_buffer(dest_size, buffer) == Prefix(get_hmac_sha256(buffer, buffer), dest_size)

DeviceIdAlwaysHashedUnlessShorter(uid) ==
    IF Len(uid) < DEVICE_ID_SIZE
        THEN [i \in 1..DEVICE_ID_SIZE |-> IF i <= Len(uid) THEN uid[i] ELSE 0]
    ELSE hash_buffer(DEVICE_ID_SIZE, uid)

\* c.device_id after lines 107-121, c having been zeroed
DeviceIdField(uid) ==
    IF Len(uid) <= DEVICE_ID_SIZE
        THEN [i \in 1..DEVICE_ID_SIZE |-> IF i <= Len(uid) THEN uid[i] ELSE 0]
    ELSE hash_buffer(DEVICE_ID_SIZE, uid)

\* struct rma_challenge c after line 124, on a device with board type b and
\* unique id u, with the key pair of draw k.
ChallengeStruct(k, b, u) ==
    [version_key_id |-> RMA_CHALLENGE_VKID_BYTE(RMA_CHALLENGE_VERSION, server_key_id),
     device_pub_key |-> X25519_public(PrivateKey(k)),
     board_id |-> b,
     device_id |-> DeviceIdField(u)]

\* (uint8_t *)&c: the bytes of the record; after the version/key id byte
\* come the public key, the board id and the device id.
StructBytes(c) == <<c.version_key_id>> \o c.device_pub_key \o c.board_id \o c.device_id

RMA_CHALLENGE_SIZE == 1 + KEY_SIZE + BOARD_ID_SIZE + DEVICE_ID_SIZE

MacInputWholeStruct(c) == StructBytes(c)

\* cptr + 1, sizeof(c) - 1
MacInput(c) == Tail(StructBytes(c))

\* secret after X25519(secret, temp, server_pub_key), on a device built with
\* the public half of the server's private key s
SharedSecretOf(k, s) == X25519(PrivateKey(k), X25519_public(s))

\* temp after get_hmac_sha256(temp, secret, sizeof(secret), cptr + 1, sizeof(c) - 1)
HmacOf(k, b, u, s) ==
    get_hmac_sha256(SharedSecretOf(k, s), MacInput(ChallengeStruct(k, b, u)))

\* The tag and the challenge record, tabulated over every key pair and device.
HmacTable ==
    [k \in Keys, b \in BoardTypes, u \in UniqueIds, s \in ServerPrivateKeys |->
        HmacOf(k, b, u, s)]

RecordTable ==
    [k \in Keys, b \in BoardTypes, u \in UniqueIds |-> ChallengeStruct(k, b, u)]

\* Number of data symbols between checksum symbols in the challenge text.
CHALLENGE_CRC_EVERY == 9

\* The authcode buffer after a successful encoding of the tag.
AuthcodeTable ==
    [k \in Keys, b \in BoardTypes, u \in UniqueIds, s \in ServerPrivateKeys |->
        base32_encode_plain(RMA_AUTHCODE_BUF_SIZE, HmacTable[k, b, u, s],
                            RMA_AUTHCODE_CHARS)]

\* The challenge buffer after a successful encoding of the challenge record:
\* RMA_CHALLENGE_CHARS symbols and a terminator.
ChallengeTable ==
    [k \in Keys, b \in BoardTypes, u \in UniqueIds |->
        base32_encode_crc(RMA_CHALLENGE_BUF_SIZE, StructBytes(RecordTable[k, b, u]),
                          (8 * RMA_CHALLENGE_SIZE) \div 5, CHALLENGE_CRC_EVERY)]

\* safe_memcmp(a, b, n): 0 iff the first n bytes agree.
safe_memcmp(a, b, n) == IF \A i \in 1..n : a[i] = b[i] THEN 0 ELSE 1

(***************************************************************************)
(* State                                                                   *)
(***************************************************************************)
VARIABLES
    challenge,            \* static char challenge[RMA_CHALLENGE_BUF_SIZE]
    authcode,             \* static char authcode[RMA_AUTHCODE_BUF_SIZE]
    tries_left,           \* static int tries_left
    last_challenge_time,  \* static uint64_t last_challenge_time
    now,                  \* get_time().val, the time since boot
    op,                   \* the rma_* function the last step ran, if any
    rv,                   \* what that function returned
    arg,                  \* the code passed to rma_try_authcode
    cmd,                  \* the vendor command handler the last step ran, if any
    req_size,             \* the payload size of that request, or -1
    rc,                   \* the vendor command return code
    response,             \* the vendor command reply: size, bytes, error byte
    console,              \* what the last step printed with CPRINTF
    invalidRun,           \* history: EC_ERROR_INVAL returns in a row
    locked,               \* history: three in a row, no successful create since
    lastSuccessTime,      \* history: time of the last successful create, or -1
    onlyLimitedSince,     \* history: every create since then was rate limited
    curCode,              \* history: authcode stored by the last successful create
    oldCodes,             \* history: authcodes stored by the ones before it
    verified,             \* history: successful verifies since the last successful create
    board_type,           \* bid.type as read_board_id reports it
    unique_id,            \* the chip unique id, system_get_chip_unique_id
    server_private_key,   \* the private key of the server this device is built for
    record,               \* history: struct c of the last successful create
    locals,               \* temp and secret as the last create call left them
    pc,                   \* per execution context: the statement it is about to run
    frame,                \* per execution context: the locals of the call it is in
    compared,             \* history: safe_memcmp calls since tries_left was last set
    totalCompared,        \* history: safe_memcmp calls since boot
    fresh,                \* history: no rma_create_challenge call since the last successful one
    before,               \* the session as the last rma_create_challenge call found it
    failed                \* the collaborator that failed in that call, if any

session == <<challenge, authcode, tries_left, last_challenge_time>>
observed == <<op, rv, arg, cmd, req_size, rc, response, console, locals, before, failed>>
history == <<invalidRun, locked, lastSuccessTime, onlyLimitedSince, curCode, oldCodes,
             verified, record, fresh, totalCompared>>
device == <<board_type, unique_id, server_private_key>>
contexts == <<pc, frame>>
vars == <<challenge, authcode, tries_left, last_challenge_time, now, op, rv, arg,
          cmd, req_size, rc, response, console, invalidRun, locked, lastSuccessTime,
          onlyLimitedSince, curCode, oldCodes, verified, board_type, unique_id,
          server_private_key, record, locals, pc, frame, compared,
          totalCompared, fresh, before, failed>>

NoCode == <<>>
NoRecord == <<>>

\* The execution contexts that can be inside the module at once: the task
\* that serves vendor commands, and one that preempts it.
Procs == {1, 2}
NoBefore == [tries_left |-> -1, challenge |-> FALSE, authcode |-> FALSE]
NoFrame == [code |-> NoCode, rv |-> "none", reg |-> 0, k |-> 0]

\* A local buffer the call returned without writing.
Unwritten == <<>>
NoLocals == [temp |-> Unwritten, secret |-> Unwritten]

\* static const uint8_t server_pub_key[32]
server_pub_key == X25519_public(server_private_key)

\* secret after X25519(secret, temp, server_pub_key)
SharedSecret(k) == SharedSecretOf(k, server_private_key)

\* The authcode and challenge buffers on this device for key pair k.
AuthcodeFor(k) == AuthcodeTable[k, board_type, unique_id, server_private_key]
ChallengeFor(k) == ChallengeTable[k, board_type, unique_id]
NoResponse == [size |-> 0, data |-> <<>>, err |-> "none"]

\* The codes a caller submits: every code the device can issue, a code that
\* is never issued ("AAAAAAAA"), and eight zero bytes.
WrongCode == [i \in 1..RMA_AUTHCODE_CHARS |-> 65]
ZeroCode == Zeroed(RMA_AUTHCODE_CHARS)
IssuedCodes == {Prefix(AuthcodeFor(k), RMA_AUTHCODE_CHARS) : k \in Keys}
Codes == IssuedCodes \cup {WrongCode, ZeroCode}

\* Payload sizes of a vendor command request, and reply buffer capacities.
InputSizes == {0, RMA_AUTHCODE_CHARS - 1, RMA_AUTHCODE_CHARS, RMA_AUTHCODE_CHARS + 1}
BufSizes == {RMA_CHALLENGE_CHARS, RMA_CHALLENGE_BUF_SIZE}

\* The collaborator of rma_create_challenge that returns an error, if any.
Faults == {"none", "read_board_id", "base32_encode challenge", "base32_encode authcode"}

(***************************************************************************)
(* rma_create_challenge                                                    *)
(***************************************************************************)
RateLimitedOffByOne(t) == t - last_challenge_time < CHALLENGE_INTERVAL - SECOND

RateLimitedOneTooLong(t) == t - last_challenge_time <= CHALLENGE_INTERVAL

RateLimitedAfterFirstOnly(t) ==
    last_challenge_time > 0 /\ t - last_challenge_time < CHALLENGE_INTERVAL

\* t - last_challenge_time < CHALLENGE_INTERVAL
RateLimited(t) == t - last_challenge_time < CHALLENGE_INTERVAL

\* memset(challenge, 0, ...); memset(authcode, 0, ...) on entry
ClearedChallenge == Zeroed(RMA_CHALLENGE_BUF_SIZE)
ClearedAuthcode == Zeroed(RMA_AUTHCODE_BUF_SIZE)

LastChallengeTimeSetFirst(t) == t

LastChallengeTimeNeverSet(t) == last_challenge_time

\* last_challenge_time when the call made at time t returns
LastChallengeTimeAfter(t) ==
    IF RateLimited(t) THEN last_challenge_time ELSE t

TriesKeptAfterCreate(n) == n

TriesOneTooMany(n) == MAX_AUTHCODE_TRIES + 1

\* tries_left = MAX_AUTHCODE_TRIES
TriesAfterCreate(n) == MAX_AUTHCODE_TRIES

\* temp after X25519_keypair(c.device_pub_key, temp): the private key
TempAfterKeypair(k) == PrivateKey(k)

\* temp after get_hmac_sha256(temp, ...): the tag, over the private key
TempAfterHmac(k) == HmacTable[k, board_type, unique_id, server_private_key]

\* rma_create_challenge with the rate limit tested before the buffers are
\* cleared.
rma_create_challenge_check_first(t, fault, k) ==
    LET ret(c, a, n, r, tmp, sec) ==
            [challenge |-> c, authcode |-> a, tries_left |-> n,
             last_challenge_time |-> LastChallengeTimeAfter(t), rv |-> r,
             c |-> RecordTable[k, board_type, unique_id],
             temp |-> tmp, secret |-> sec]
    IN  IF RateLimited(t)
            THEN ret(challenge, authcode, tries_left, EC_ERROR_TIMEOUT,
                     Unwritten, Unwritten)
        ELSE IF fault = "read_board_id"
            THEN ret(ClearedChallenge, ClearedAuthcode, tries_left, EC_ERROR_UNKNOWN,
                     Unwritten, Unwritten)
        ELSE IF fault = "base32_encode challenge"
            THEN ret(ClearedChallenge, ClearedAuthcode, tries_left, EC_ERROR_UNKNOWN,
                     TempAfterKeypair(k), Unwritten)
        ELSE IF fault = "base32_encode authcode"
            THEN ret(ChallengeFor(k), ClearedAuthcode, tries_left, EC_ERROR_UNKNOWN,
                     TempAfterHmac(k), SharedSecret(k))
        ELSE ret(ChallengeFor(k), AuthcodeFor(k), TriesAfterCreate(tries_left), EC_SUCCESS,
                 TempAfterHmac(k), SharedSecret(k))

\* The statics, the locals and the return value when rma_create_challenge returns, for a
\* call made at time t in which X25519_keypair produces key pair k and the
\* collaborator named by fault, if any, returns an error (the function
\* returns at the first error, so at most one of them fails in a call).
rma_create_challenge(t, fault, k) ==
    LET ret(c, a, n, r, tmp, sec) ==
            [challenge |-> c, authcode |-> a, tries_left |-> n,
             last_challenge_time |-> LastChallengeTimeAfter(t), rv |-> r,
             c |-> RecordTable[k, board_type, unique_id],
             temp |-> tmp, secret |-> sec]
    IN  IF RateLimited(t)
            THEN ret(ClearedChallenge, ClearedAuthcode, tries_left, EC_ERROR_TIMEOUT,
                     Unwritten, Unwritten)
        ELSE IF fault = "read_board_id"
            THEN ret(ClearedChallenge, ClearedAuthcode, tries_left, EC_ERROR_UNKNOWN,
                     Unwritten, Unwritten)
        ELSE IF fault = "base32_encode challenge"
            THEN ret(ClearedChallenge, ClearedAuthcode, tries_left, EC_ERROR_UNKNOWN,
                     TempAfterKeypair(k), Unwritten)
        ELSE IF fault = "base32_encode authcode"
            THEN ret(ChallengeFor(k), ClearedAuthcode, tries_left, EC_ERROR_UNKNOWN,
                     TempAfterHmac(k), SharedSecret(k))
        ELSE ret(ChallengeFor(k), AuthcodeFor(k), TriesAfterCreate(tries_left), EC_SUCCESS,
                 TempAfterHmac(k), SharedSecret(k))

\* The collaborator that returns an error in a call made at time t: the one
\* named by fault, unless the call returns before reaching any.
FaultMet(t, fault) == IF RateLimited(t) THEN "none" ELSE fault

\* const char *rma_get_challenge(void)
rma_get_challenge == challenge

(***************************************************************************)
(* rma_try_authcode                                                        *)
(***************************************************************************)
OutOfTriesAfterOneMiss == tries_left # MAX_AUTHCODE_TRIES

\* if (!tries_left)
OutOfTries == tries_left = 0

NoAuthcodeUnchecked == FALSE

\* if (!*authcode)
NoAuthcode == authcode[1] = 0

MismatchShort(code) == safe_memcmp(authcode, code, RMA_AUTHCODE_CHARS - 1) # 0

\* if (safe_memcmp(authcode, code, RMA_AUTHCODE_CHARS))
Mismatch(code) == safe_memcmp(authcode, code, RMA_AUTHCODE_CHARS) # 0

TriesNotConsumed(n) == n

TriesLoseTwo(n) == n - 2

\* tries_left--
TriesAfterMismatch(n) == n - 1

TriesKeptAfterMatch(n) == n

\* tries_left = 0
TriesAfterMatch(n) == 0

ClearSkipped(n) == FALSE

\* if (!tries_left) after the comparison: the buffers are cleared
ClearNeeded(n) == n = 0

\* rma_try_authcode in which a call refused for want of an authcode still
\* uses up a try.
rma_try_authcode_denied_counts(code) ==
    LET n == IF Mismatch(code) THEN TriesAfterMismatch(tries_left)
                               ELSE TriesAfterMatch(tries_left)
        r == IF Mismatch(code) THEN EC_ERROR_INVAL ELSE EC_SUCCESS
    IN  IF OutOfTries
            THEN [challenge |-> challenge, authcode |-> authcode,
                  tries_left |-> tries_left, rv |-> EC_ERROR_ACCESS_DENIED]
        ELSE IF NoAuthcode
            THEN [challenge |-> challenge, authcode |-> authcode,
                  tries_left |-> tries_left - 1, rv |-> EC_ERROR_ACCESS_DENIED]
        ELSE [challenge |-> IF ClearNeeded(n) THEN ClearedChallenge ELSE challenge,
              authcode |-> IF ClearNeeded(n) THEN ClearedAuthcode ELSE authcode,
              tries_left |-> n, rv |-> r]

\* The statics and the return value when rma_try_authcode(code) returns.
rma_try_authcode(code) ==
    LET denied == [challenge |-> challenge, authcode |-> authcode,
                   tries_left |-> tries_left, rv |-> EC_ERROR_ACCESS_DENIED]
        n == IF Mismatch(code) THEN TriesAfterMismatch(tries_left)
                               ELSE TriesAfterMatch(tries_left)
        r == IF Mismatch(code) THEN EC_ERROR_INVAL ELSE EC_SUCCESS
    IN  IF OutOfTries THEN denied
        ELSE IF NoAuthcode THEN denied
        ELSE [challenge |-> IF ClearNeeded(n) THEN ClearedChallenge ELSE challenge,
              authcode |-> IF ClearNeeded(n) THEN ClearedAuthcode ELSE authcode,
              tries_left |-> n, rv |-> r]

(***************************************************************************)
(* Vendor command VENDOR_CC_RMA_CHALLENGE_RESPONSE                         *)
(***************************************************************************)
\* if (*buf_size < sizeof(challenge))
ReplyTooSmall(buf_size) == buf_size < RMA_CHALLENGE_BUF_SIZE

InputTooShort(input_size) == input_size < RMA_AUTHCODE_CHARS

\* if (input_size != RMA_AUTHCODE_CHARS)
BadInputSize(input_size) == input_size # RMA_AUTHCODE_CHARS

IsShortRequest(input_size) == input_size < RMA_AUTHCODE_CHARS

\* if (!input_size) in rma_challenge_response
IsCreateRequest(input_size) == input_size = 0

ErrorReply(e) == [size |-> 1, data |-> <<>>, err |-> e]

\* get_challenge: the return code, the reply and the console output, given
\* what rma_create_challenge left behind (out).
get_challenge_reply(out) ==
    IF out.rv # EC_SUCCESS
        THEN [rc |-> out.rv, response |-> ErrorReply(out.rv), console |-> <<>>]
    ELSE [rc |-> VENDOR_RC_SUCCESS,
          response |-> [size |-> RMA_CHALLENGE_BUF_SIZE - 1,
                        data |-> Prefix(out.challenge, RMA_CHALLENGE_BUF_SIZE - 1),
                        err |-> "none"],
          console |-> << [text |-> "generated challenge",
                          data |-> Prefix(out.challenge, RMA_CHALLENGE_BUF_SIZE - 1)],
                         [text |-> "expected authcode",
                          data |-> Prefix(out.authcode, RMA_AUTHCODE_CHARS)] >>]

\* The statics as they are, as a result record of a call that did not run.
NotCalled ==
    [challenge |-> challenge, authcode |-> authcode, tries_left |-> tries_left,
     last_challenge_time |-> last_challenge_time, rv |-> "none"]

\* get_challenge with the size check after the call of rma_create_challenge.
get_challenge_check_late(buf_size, t, fault, k) ==
    LET out == rma_create_challenge(t, fault, k)
        reply == get_challenge_reply(out)
    IN  IF ReplyTooSmall(buf_size)
            THEN [called |-> TRUE, out |-> out, rc |-> VENDOR_RC_RESPONSE_TOO_BIG,
                  response |-> ErrorReply(VENDOR_RC_RESPONSE_TOO_BIG), console |-> <<>>]
        ELSE [called |-> TRUE, out |-> out, rc |-> reply.rc,
              response |-> reply.response, console |-> reply.console]

\* get_challenge(buf, buf_size) at time t: whether rma_create_challenge was
\* called, what it left behind, and the return code, reply and console output.
get_challenge(buf_size, t, fault, k) ==
    LET out == rma_create_challenge(t, fault, k)
        reply == get_challenge_reply(out)
    IN  IF ReplyTooSmall(buf_size)
            THEN [called |-> FALSE, out |-> NotCalled, rc |-> VENDOR_RC_RESPONSE_TOO_BIG,
                  response |-> ErrorReply(VENDOR_RC_RESPONSE_TOO_BIG), console |-> <<>>]
        ELSE [called |-> TRUE, out |-> out, rc |-> reply.rc,
              response |-> reply.response, console |-> reply.console]

\* process_response, after the size check: the return code, the reply and
\* the console output, given what rma_try_authcode returned (out).
process_response_reply(out) ==
    IF out.rv = EC_SUCCESS
        THEN [rc |-> VENDOR_RC_SUCCESS, response |-> NoResponse,
              console |-> << [text |-> "success!", data |-> <<>>] >>]
    ELSE [rc |-> VENDOR_RC_INTERNAL_ERROR,
          response |-> ErrorReply(VENDOR_RC_INTERNAL_ERROR),
          console |-> << [text |-> "authcode mismatch", data |-> <<>>] >>]

(***************************************************************************)
(* History                                                                 *)
(***************************************************************************)
\* totalCompared stops counting at MaxCompared, one more than three
\* comparisons for every interval begun by MaxTime.
MaxCompared == MAX_AUTHCODE_TRIES * ((MaxTime \div CHALLENGE_INTERVAL) + 1) + 1

HistoryAfterCreate(out, t) ==
    LET ok == out.rv = EC_SUCCESS
    IN  /\ invalidRun' = 0
        /\ locked' = IF ok THEN FALSE ELSE locked
        /\ lastSuccessTime' = IF ok THEN t ELSE lastSuccessTime
        /\ onlyLimitedSince' = IF ok THEN TRUE
                               ELSE onlyLimitedSince /\ out.rv = EC_ERROR_TIMEOUT
        /\ curCode' = IF ok THEN Prefix(out.authcode, RMA_AUTHCODE_CHARS) ELSE curCode
        /\ oldCodes' = IF ok /\ curCode # NoCode THEN oldCodes \cup {curCode} ELSE oldCodes
        /\ verified' = IF ok THEN 0 ELSE verified
        /\ record' = IF ok THEN out.c ELSE record
        /\ fresh' = ok
        /\ compared' = IF ok THEN 0 ELSE compared
        /\ UNCHANGED totalCompared

HistoryAfterTry(out) ==
    LET cmp == out.rv \in {EC_ERROR_INVAL, EC_SUCCESS}
        run == IF out.rv = EC_ERROR_INVAL
                   THEN (IF invalidRun < MAX_AUTHCODE_TRIES THEN invalidRun + 1
                                                            ELSE invalidRun)
               ELSE IF out.rv = EC_SUCCESS THEN 0
               ELSE invalidRun
    IN  /\ invalidRun' = run
        /\ locked' = (locked \/ run = MAX_AUTHCODE_TRIES)
        /\ verified' = IF out.rv = EC_SUCCESS /\ verified < 2 THEN verified + 1 ELSE verified
        /\ compared' = IF cmp /\ compared <= MAX_AUTHCODE_TRIES THEN compared + 1
                                                                ELSE compared
        /\ totalCompared' = IF cmp /\ totalCompared < MaxCompared THEN totalCompared + 1
                                                                  ELSE totalCompared
        /\ UNCHANGED <<lastSuccessTime, onlyLimitedSince, curCode, oldCodes, record, fresh>>

(***************************************************************************)
(* Actions                                                                 *)
(***************************************************************************)
\* The statics after boot, and nothing observed yet.
Boot ==
    /\ challenge = ClearedChallenge
    /\ authcode = ClearedAuthcode
    /\ tries_left = 0
    /\ last_challenge_time = 0
    /\ now = 0
    /\ op = "boot" /\ rv = "none" /\ arg = NoCode
    /\ cmd = "none" /\ req_size = -1
    /\ rc = "none" /\ response = NoResponse /\ console = <<>>
    /\ invalidRun = 0 /\ locked = FALSE
    /\ lastSuccessTime = -1 /\ onlyLimitedSince = FALSE
    /\ curCode = NoCode /\ oldCodes = {} /\ verified = 0
    /\ record = NoRecord /\ locals = NoLocals
    /\ pc = [p \in Procs |-> "idle"] /\ frame = [p \in Procs |-> NoFrame]
    /\ compared = 0 /\ totalCompared = 0
    /\ fresh = FALSE /\ before = NoBefore /\ failed = "none"

\* One device: the board, the chip and the server key it was built with.
Init ==
    /\ Boot
    /\ board_type = DefaultBoardType /\ unique_id = DefaultUniqueId
    /\ server_private_key = DefaultServerKey

\* Any device.
InitAnyDevice ==
    /\ Boot
    /\ board_type \in BoardTypes /\ unique_id \in UniqueIds
    /\ server_private_key \in ServerPrivateKeys

\* The clock advances between calls.
Tick ==
    /\ now < MaxTime
    /\ now' = now + SECOND
    /\ op' = "tick" /\ rv' = "none" /\ arg' = NoCode
    /\ cmd' = "none" /\ req_size' = -1
    /\ rc' = "none" /\ response' = NoResponse /\ console' = <<>>
    /\ locals' = NoLocals
    /\ before' = NoBefore /\ failed' = "none"
    /\ UNCHANGED session
    /\ UNCHANGED history
    /\ UNCHANGED device
    /\ UNCHANGED contexts
    /\ UNCHANGED compared

ApplyCreate(out) ==
    /\ challenge' = out.challenge
    /\ authcode' = out.authcode
    /\ tries_left' = out.tries_left
    /\ last_challenge_time' = out.last_challenge_time
    /\ op' = "create" /\ rv' = out.rv /\ arg' = NoCode
    /\ locals' = [temp |-> out.temp, secret |-> out.secret]
    /\ before' = [tries_left |-> tries_left, challenge |-> ~IsEmptyStr(challenge),
                  authcode |-> ~IsEmptyStr(authcode)]
    /\ HistoryAfterCreate(out, now)
    /\ UNCHANGED now
    /\ UNCHANGED device
    /\ UNCHANGED contexts

ApplyTry(code, out) ==
    /\ challenge' = out.challenge
    /\ authcode' = out.authcode
    /\ tries_left' = out.tries_left
    /\ op' = "try" /\ rv' = out.rv /\ arg' = code
    /\ locals' = NoLocals
    /\ before' = NoBefore /\ failed' = "none"
    /\ HistoryAfterTry(out)
    /\ UNCHANGED <<last_challenge_time, now>>
    /\ UNCHANGED device
    /\ UNCHANGED contexts

\* A direct call of rma_create_challenge().
CreateChallenge ==
    \E fault \in Faults, k \in Keys :
        /\ ApplyCreate(rma_create_challenge(now, fault, k))
        /\ failed' = FaultMet(now, fault)
        /\ cmd' = "none" /\ req_size' = -1
        /\ rc' = "none" /\ response' = NoResponse /\ console' = <<>>

\* A direct call of rma_try_authcode(code).
TryAuthcode ==
    \E code \in Codes :
        /\ ApplyTry(code, rma_try_authcode(code))
        /\ cmd' = "none" /\ req_size' = -1
        /\ rc' = "none" /\ response' = NoResponse /\ console' = <<>>

\* rma_challenge_response with an empty payload: get_challenge, which writes
\* its reply into a buffer of buf_size bytes.
GetChallenge ==
    \E input_size \in InputSizes, buf_size \in BufSizes, fault \in Faults, k \in Keys :
        /\ IsCreateRequest(input_size)
        /\ cmd' = "get_challenge" /\ req_size' = input_size
        /\ LET g == get_challenge(buf_size, now, fault, k)
           IN  /\ rc' = g.rc
               /\ response' = g.response
               /\ console' = g.console
               /\ IF g.called
                     THEN /\ ApplyCreate(g.out)
                          /\ failed' = FaultMet(now, fault)
                     ELSE /\ op' = "none" /\ rv' = "none" /\ arg' = NoCode
                          /\ locals' = NoLocals
                          /\ before' = NoBefore /\ failed' = "none"
                          /\ UNCHANGED session
                          /\ UNCHANGED now
                          /\ UNCHANGED history
                          /\ UNCHANGED device
                          /\ UNCHANGED contexts
                          /\ UNCHANGED compared

\* rma_challenge_response with a payload: process_response.
ProcessResponse ==
    \E input_size \in InputSizes, code \in Codes :
        /\ ~IsCreateRequest(input_size)
        /\ cmd' = "process_response" /\ req_size' = input_size
        /\ IF BadInputSize(input_size)
              THEN /\ rc' = VENDOR_RC_BOGUS_ARGS
                   /\ response' = ErrorReply(VENDOR_RC_BOGUS_ARGS)
                   /\ console' = << [text |-> "authcode size", data |-> <<input_size>>] >>
                   /\ op' = "none" /\ rv' = "none" /\ arg' = NoCode
                   /\ locals' = NoLocals
                   /\ before' = NoBefore /\ failed' = "none"
                   /\ UNCHANGED session
                   /\ UNCHANGED now
                   /\ UNCHANGED history
                   /\ UNCHANGED device
                   /\ UNCHANGED contexts
                   /\ UNCHANGED compared
              ELSE LET out == rma_try_authcode(code)
                       reply == process_response_reply(out)
                   IN  /\ ApplyTry(code, out)
                       /\ rc' = reply.rc
                       /\ response' = reply.response
                       /\ console' = reply.console

\* The handler of VENDOR_CC_RMA_CHALLENGE_RESPONSE.
rma_challenge_response == GetChallenge \/ ProcessResponse

Next == Tick \/ CreateChallenge \/ TryAuthcode \/ rma_challenge_response

Spec == Init /\ [][Next]_vars

\* A whole rate-limit interval passes between calls.
Leap ==
    /\ now + CHALLENGE_INTERVAL <= MaxTime
    /\ now' = now + CHALLENGE_INTERVAL
    /\ op' = "tick" /\ rv' = "none" /\ arg' = NoCode
    /\ cmd' = "none" /\ req_size' = -1
    /\ rc' = "none" /\ response' = NoResponse /\ console' = <<>>
    /\ locals' = NoLocals
    /\ before' = NoBefore /\ failed' = "none"
    /\ UNCHANGED session
    /\ UNCHANGED history
    /\ UNCHANGED device
    /\ UNCHANGED contexts
    /\ UNCHANGED compared

NextAnyDevice == Leap \/ CreateChallenge \/ TryAuthcode \/ rma_challenge_response

\* The same calls on any device, with the clock advancing by whole intervals.
SpecAnyDevice == InitAnyDevice /\ [][NextAnyDevice]_vars

(***************************************************************************)
(* Statement by statement                                                  *)
(*                                                                         *)
(* The module takes no lock and masks no interrupt, so when two execution  *)
(* contexts are inside it their statements interleave.  Each action below  *)
(* is one statement of rma_try_authcode or rma_create_challenge run by     *)
(* context p; the locals of the call are in frame[p].  At most one context *)
(* is inside rma_create_challenge.  The call histories follow whole calls  *)
(* and stand still here.                                                   *)
(***************************************************************************)
\* tries_left may not fall below -MaxUnderflow in the model.
MaxUnderflow == 2

\* The codes a caller submits here: a wrong one, and what authcode holds.
SubmittedCodes == {WrongCode, Prefix(authcode, RMA_AUTHCODE_CHARS)}

InCreate(p) == pc[p] \in {"c89", "c90", "c93", "c101", "c127", "c139", "c143"}

Goto(p, label, f) ==
    /\ pc' = [pc EXCEPT ![p] = label]
    /\ frame' = [frame EXCEPT ![p] = f]
    /\ op' = "step" /\ rv' = "none" /\ arg' = NoCode
    /\ cmd' = "none" /\ req_size' = -1
    /\ rc' = "none" /\ response' = NoResponse /\ console' = <<>>
    /\ locals' = NoLocals
    /\ before' = NoBefore /\ failed' = "none"
    /\ UNCHANGED <<now, history, device>>

Return(p, fn, r) ==
    /\ pc' = [pc EXCEPT ![p] = "idle"]
    /\ frame' = [frame EXCEPT ![p] = NoFrame]
    /\ op' = fn /\ rv' = r /\ arg' = frame[p].code
    /\ cmd' = "none" /\ req_size' = -1
    /\ rc' = "none" /\ response' = NoResponse /\ console' = <<>>
    /\ locals' = NoLocals
    /\ before' = NoBefore /\ failed' = "none"
    /\ UNCHANGED <<now, history, device>>

\* rma_try_authcode(code) is entered: int rv = EC_ERROR_INVAL
TryEnter(p) ==
    \E code \in SubmittedCodes :
        /\ pc[p] = "idle"
        /\ Goto(p, "t157", [NoFrame EXCEPT !.code = code, !.rv = EC_ERROR_INVAL])
        /\ UNCHANGED <<session, compared>>

\* if (!tries_left) return EC_ERROR_ACCESS_DENIED
Try157(p) ==
    /\ pc[p] = "t157"
    /\ IF OutOfTries THEN Return(p, "try", EC_ERROR_ACCESS_DENIED)
                     ELSE Goto(p, "t161", frame[p])
    /\ UNCHANGED <<session, compared>>

\* if (!*authcode) return EC_ERROR_ACCESS_DENIED
Try161(p) ==
    /\ pc[p] = "t161"
    /\ IF NoAuthcode THEN Return(p, "try", EC_ERROR_ACCESS_DENIED)
                     ELSE Goto(p, "t164", frame[p])
    /\ UNCHANGED <<session, compared>>

\* if (safe_memcmp(authcode, code, RMA_AUTHCODE_CHARS))
Try164(p) ==
    /\ pc[p] = "t164"
    /\ compared' = IF compared <= MAX_AUTHCODE_TRIES THEN compared + 1 ELSE compared
    /\ IF Mismatch(frame[p].code) THEN Goto(p, "t166", frame[p])
                                  ELSE Goto(p, "t168", frame[p])
    /\ UNCHANGED session

\* tries_left--: the load
Try166(p) ==
    /\ pc[p] = "t166"
    /\ Goto(p, "t166w", [frame[p] EXCEPT !.reg = tries_left])
    /\ UNCHANGED <<session, compared>>

\* tries_left--: the store
Try166w(p) ==
    /\ pc[p] = "t166w"
    /\ TriesAfterMismatch(frame[p].reg) >= -MaxUnderflow
    /\ tries_left' = TriesAfterMismatch(frame[p].reg)
    /\ Goto(p, "t173", frame[p])
    /\ UNCHANGED <<challenge, authcode, last_challenge_time, compared>>

\* rv = EC_SUCCESS; tries_left = 0
Try168(p) ==
    /\ pc[p] = "t168"
    /\ tries_left' = TriesAfterMatch(tries_left)
    /\ Goto(p, "t173", [frame[p] EXCEPT !.rv = EC_SUCCESS])
    /\ UNCHANGED <<challenge, authcode, last_challenge_time, compared>>

\* if (!tries_left) ... return rv
Try173(p) ==
    /\ pc[p] = "t173"
    /\ IF OutOfTries THEN Goto(p, "t174", frame[p])
                     ELSE Return(p, "try", frame[p].rv)
    /\ UNCHANGED <<session, compared>>

\* memset(challenge, 0, sizeof(challenge))
Try174(p) ==
    /\ pc[p] = "t174"
    /\ challenge' = ClearedChallenge
    /\ Goto(p, "t175", frame[p])
    /\ UNCHANGED <<authcode, tries_left, last_challenge_time, compared>>

\* memset(authcode, 0, sizeof(authcode)); return rv
Try175(p) ==
    /\ pc[p] = "t175"
    /\ authcode' = ClearedAuthcode
    /\ Return(p, "try", frame[p].rv)
    /\ UNCHANGED <<challenge, tries_left, last_challenge_time, compared>>

TryStep(p) ==
    \/ TryEnter(p) \/ Try157(p) \/ Try161(p) \/ Try164(p) \/ Try166(p)
    \/ Try166w(p) \/ Try168(p) \/ Try173(p) \/ Try174(p) \/ Try175(p)

\* rma_create_challenge() is entered, and X25519_keypair will yield pair k.
CreateEnter(p) ==
    \E k \in Keys :
        /\ pc[p] = "idle"
        /\ \A q \in Procs : ~InCreate(q)
        /\ Goto(p, "c89", [NoFrame EXCEPT !.k = k])
        /\ UNCHANGED <<session, compared>>

\* memset(challenge, 0, sizeof(challenge))
Create89(p) ==
    /\ pc[p] = "c89"
    /\ challenge' = ClearedChallenge
    /\ Goto(p, "c90", frame[p])
    /\ UNCHANGED <<authcode, tries_left, last_challenge_time, compared>>

\* memset(authcode, 0, sizeof(authcode))
Create90(p) ==
    /\ pc[p] = "c90"
    /\ authcode' = ClearedAuthcode
    /\ Goto(p, "c93", frame[p])
    /\ UNCHANGED <<challenge, tries_left, last_challenge_time, compared>>

\* t = get_time().val; the rate limit; last_challenge_time = t
Create93(p) ==
    /\ pc[p] = "c93"
    /\ last_challenge_time' = LastChallengeTimeAfter(now)
    /\ IF RateLimited(now) THEN Return(p, "create", EC_ERROR_TIMEOUT)
                           ELSE Goto(p, "c101", frame[p])
    /\ UNCHANGED <<challenge, authcode, tries_left, compared>>

\* c is filled in: read_board_id, the device id, X25519_keypair
Create101(p) ==
    \E fault \in {"none", "read_board_id"} :
        /\ pc[p] = "c101"
        /\ IF fault = "read_board_id" THEN Return(p, "create", EC_ERROR_UNKNOWN)
                                      ELSE Goto(p, "c127", frame[p])
        /\ UNCHANGED <<session, compared>>

\* if (base32_encode(challenge, sizeof(challenge), cptr, 8 * sizeof(c), 9))
Create127(p) ==
    \E fault \in {"none", "base32_encode challenge"} :
        /\ pc[p] = "c127"
        /\ IF fault = "base32_encode challenge"
              THEN /\ Return(p, "create", EC_ERROR_UNKNOWN)
                   /\ UNCHANGED challenge
              ELSE /\ challenge' = ChallengeFor(frame[p].k)
                   /\ Goto(p, "c139", frame[p])
        /\ UNCHANGED <<authcode, tries_left, last_challenge_time, compared>>

\* X25519, get_hmac_sha256, if (base32_encode(authcode, sizeof(authcode), ...))
Create139(p) ==
    \E fault \in {"none", "base32_encode authcode"} :
        /\ pc[p] = "c139"
        /\ IF fault = "base32_encode authcode"
              THEN /\ Return(p, "create", EC_ERROR_UNKNOWN)
                   /\ UNCHANGED authcode
              ELSE /\ authcode' = AuthcodeFor(frame[p].k)
                   /\ Goto(p, "c143", frame[p])
        /\ UNCHANGED <<challenge, tries_left, last_challenge_time, compared>>

\* tries_left = MAX_AUTHCODE_TRIES; return EC_SUCCESS
Create143(p) ==
    /\ pc[p] = "c143"
    /\ tries_left' = TriesAfterCreate(tries_left)
    /\ compared' = 0
    /\ Return(p, "create", EC_SUCCESS)
    /\ UNCHANGED <<challenge, authcode, last_challenge_time>>

CreateStep(p) ==
    \/ CreateEnter(p) \/ Create89(p) \/ Create90(p) \/ Create93(p)
    \/ Create101(p) \/ Create127(p) \/ Create139(p) \/ Create143(p)

NextInterleaved == Leap \/ \E p \in Procs : TryStep(p) \/ CreateStep(p)

\* Two execution contexts running the module's functions statement by
\* statement, with the clock advancing by whole intervals.
SpecInterleaved == Init /\ [][NextInterleaved]_vars

(***************************************************************************)
(* Properties                                                              *)
(***************************************************************************)
\* The session can accept a code: tries are left and an authcode is stored.
Armed == tries_left > 0 /\ ~NoAuthcode

\* C1: once three rma_try_authcode calls in a row have returned
\* EC_ERROR_INVAL, every rma_try_authcode call returns
\* EC_ERROR_ACCESS_DENIED, whatever the code, until rma_create_challenge
\* returns EC_SUCCESS.
C1_Lockout ==
    [][(locked /\ op' = "try") => rv' = EC_ERROR_ACCESS_DENIED]_vars

\* Locked out, and the code that was correct before the lockout is refused.
C1_Witness ==
    /\ locked /\ invalidRun = MAX_AUTHCODE_TRIES
    /\ op = "try" /\ arg = curCode /\ rv = EC_ERROR_ACCESS_DENIED

\* C2: a rma_create_challenge call made less than CHALLENGE_INTERVAL after
\* one that returned EC_SUCCESS returns EC_ERROR_TIMEOUT; so two calls that
\* return EC_SUCCESS are at least CHALLENGE_INTERVAL apart.
C2_RateLimit ==
    [][(op' = "create" /\ lastSuccessTime >= 0) =>
          /\ (now - lastSuccessTime < CHALLENGE_INTERVAL => rv' = EC_ERROR_TIMEOUT)
          /\ (rv' = EC_SUCCESS => now - lastSuccessTime >= CHALLENGE_INTERVAL)]_vars

\* A call in the last second of the window of a successful one is refused.
C2_Witness ==
    /\ op = "create" /\ rv = EC_ERROR_TIMEOUT
    /\ lastSuccessTime >= 0
    /\ now - lastSuccessTime = CHALLENGE_INTERVAL - SECOND

\* C3 as stated: a rma_create_challenge call that returns EC_ERROR_TIMEOUT
\* leaves the challenge and authcode buffers as they were.
C3_RateLimitedKeepsSession ==
    [][(op' = "create" /\ rv' = EC_ERROR_TIMEOUT) =>
          (challenge' = challenge /\ authcode' = authcode)]_vars

\* C4: a rma_create_challenge call that returns EC_ERROR_TIMEOUT leaves
\* last_challenge_time unchanged; after a successful call at t0 followed by
\* rate-limited calls only, last_challenge_time is still t0 and a call at
\* t >= t0 + CHALLENGE_INTERVAL does not return EC_ERROR_TIMEOUT.
C4_RateLimitedKeepsTime ==
    [][op' = "create" =>
          /\ (rv' = EC_ERROR_TIMEOUT => last_challenge_time' = last_challenge_time)
          /\ (onlyLimitedSince' => last_challenge_time' = lastSuccessTime')
          /\ ((onlyLimitedSince /\ now - lastSuccessTime >= CHALLENGE_INTERVAL)
                 => rv' # EC_ERROR_TIMEOUT)]_vars

\* A rate-limited call later than the successful one has just returned.
C4_Witness ==
    /\ op = "create" /\ rv = EC_ERROR_TIMEOUT
    /\ onlyLimitedSince /\ now > lastSuccessTime
    /\ last_challenge_time = lastSuccessTime

\* C5 as stated: the authcode is non-empty iff tries_left > 0.
C5_AuthcodeIffTries == (~IsEmptyStr(authcode)) <=> (tries_left > 0)

\* C6 as stated: once rma_try_authcode has succeeded or used the last try,
\* the challenge and authcode buffers are all zero bytes for as long as
\* tries_left is 0.
C6_ZeroWhileNoTries ==
    (tries_left = 0 /\ (verified >= 1 \/ locked)) =>
        (AllZero(challenge) /\ AllZero(authcode) /\ IsEmptyStr(rma_get_challenge))

\* C7: the authcode of an earlier challenge, when it differs from the one
\* stored by the latest successful rma_create_challenge, is never accepted,
\* and is answered with EC_ERROR_INVAL while the new session is armed.
C7_OldCodeRejected ==
    [][(op' = "try" /\ arg' \in oldCodes /\ arg' # curCode) =>
          /\ rv' # EC_SUCCESS
          /\ (Armed => rv' = EC_ERROR_INVAL)]_vars

\* The code of a superseded challenge has been tried and found invalid.
C7_Witness ==
    /\ op = "try" /\ arg \in oldCodes /\ arg # curCode
    /\ rv = EC_ERROR_INVAL

\* C8: a verify request whose payload size is not RMA_AUTHCODE_CHARS gets
\* VENDOR_RC_BOGUS_ARGS and changes neither tries_left nor the buffers.
C8_BadLength ==
    [][(cmd' = "process_response" /\ req_size' # RMA_AUTHCODE_CHARS) =>
          /\ rc' = VENDOR_RC_BOGUS_ARGS
          /\ response' = ErrorReply(VENDOR_RC_BOGUS_ARGS)
          /\ tries_left' = tries_left
          /\ challenge' = challenge
          /\ authcode' = authcode]_vars

\* A payload one byte short was refused while all tries were left.
C8_Witness ==
    /\ cmd = "process_response" /\ req_size = RMA_AUTHCODE_CHARS - 1
    /\ rc = VENDOR_RC_BOGUS_ARGS
    /\ Armed /\ tries_left = MAX_AUTHCODE_TRIES

\* C9: on an armed session rma_try_authcode with the stored authcode returns
\* EC_SUCCESS, sets tries_left to 0 and zeroes both buffers; every later
\* call is denied until the next successful rma_create_challenge, so at most
\* one call succeeds per challenge.
C9_OneTimeUse ==
    /\ [](verified <= 1)
    /\ [][op' = "try" =>
             /\ ((Armed /\ arg' = Prefix(authcode, RMA_AUTHCODE_CHARS)) =>
                    /\ rv' = EC_SUCCESS
                    /\ tries_left' = 0
                    /\ AllZero(challenge') /\ AllZero(authcode'))
             /\ (verified >= 1 => rv' = EC_ERROR_ACCESS_DENIED)]_vars

\* The code that was just accepted is submitted again and denied.
C9_Witness ==
    /\ op = "try" /\ arg = curCode /\ rv = EC_ERROR_ACCESS_DENIED
    /\ verified = 1 /\ ~locked

\* C10 as stated: when rma_create_challenge fails after the rate-limit
\* check, the challenge and the authcode are both empty on return.
C10_FailedCreateLeavesEmpty ==
    (op = "create" /\ rv = EC_ERROR_UNKNOWN) =>
        (IsEmptyStr(challenge) /\ IsEmptyStr(authcode))

\* C11: a rma_create_challenge call that passes the rate-limit check at
\* time t and then fails leaves last_challenge_time = t; no other step
\* changes last_challenge_time, and every call made less than
\* CHALLENGE_INTERVAL after it returns EC_ERROR_TIMEOUT and changes nothing.
C11_FailedCreateKeepsRateLimit ==
    [][/\ (op' = "create" /\ rv' = EC_ERROR_UNKNOWN) => last_challenge_time' = now
       /\ (op' = "create" /\ now - last_challenge_time < CHALLENGE_INTERVAL) =>
              (rv' = EC_ERROR_TIMEOUT /\ last_challenge_time' = last_challenge_time)
       /\ op' # "create" => last_challenge_time' = last_challenge_time]_vars

\* A call is rate limited although no call has succeeded within the last
\* CHALLENGE_INTERVAL and the boot window is over: only a failed call can
\* have started the window.
C11_Witness ==
    /\ op = "create" /\ rv = EC_ERROR_TIMEOUT
    /\ now >= CHALLENGE_INTERVAL
    /\ (lastSuccessTime < 0 \/ now - lastSuccessTime >= CHALLENGE_INTERVAL)
    /\ now - last_challenge_time < CHALLENGE_INTERVAL

\* C12 as stated: after a create request with a reply buffer too small, the
\* challenge is cleared and the session is idle.
C12_TooSmallLeavesIdle ==
    (cmd = "get_challenge" /\ rc = VENDOR_RC_RESPONSE_TOO_BIG) =>
        (IsEmptyStr(challenge) /\ ~Armed)

\* C12 amended: a create request with a reply buffer too small is answered
\* with the one byte VENDOR_RC_RESPONSE_TOO_BIG and rma_create_challenge is
\* not called: the statics are what they were, an armed session stays armed.
C12_TooSmallLeavesSession ==
    [][(cmd' = "get_challenge" /\ rc' = VENDOR_RC_RESPONSE_TOO_BIG) =>
          /\ response' = ErrorReply(VENDOR_RC_RESPONSE_TOO_BIG)
          /\ op' = "none"
          /\ challenge' = challenge /\ authcode' = authcode
          /\ tries_left' = tries_left
          /\ last_challenge_time' = last_challenge_time]_vars

\* The request was refused while a challenge was outstanding, and it still is.
C12_Witness ==
    /\ cmd = "get_challenge" /\ rc = VENDOR_RC_RESPONSE_TOO_BIG
    /\ Armed /\ ~IsEmptyStr(rma_get_challenge)

\* C13: a request is handled by get_challenge iff its payload is empty and
\* by process_response otherwise; a successful create replies with the
\* RMA_CHALLENGE_CHARS characters of the stored challenge, terminator
\* excluded; a failed one replies with the one byte of its error code and
\* no challenge bytes.
C13_DispatchAndCreateReply ==
    /\ (cmd = "get_challenge") <=> (req_size = 0)
    /\ (cmd = "process_response") <=> (req_size > 0)
    /\ (cmd = "get_challenge" /\ rc = VENDOR_RC_SUCCESS) =>
          /\ response.size = RMA_CHALLENGE_CHARS
          /\ Len(response.data) = response.size
          /\ response.data = Prefix(rma_get_challenge, response.size)
          /\ \A i \in 1..response.size : response.data[i] # 0
          /\ rma_get_challenge[response.size + 1] = 0
          /\ response.err = "none"
    /\ (cmd = "get_challenge" /\ rc # VENDOR_RC_SUCCESS) =>
          /\ response.size = 1
          /\ response.data = <<>>
          /\ response.err = rc
          /\ (op = "create" => rc = rv)

\* A create request has been answered with a challenge.
C13_Witness ==
    /\ cmd = "get_challenge" /\ req_size = 0 /\ rc = VENDOR_RC_SUCCESS
    /\ response.size = RMA_CHALLENGE_CHARS

\* C14 as stated: a verify request replies with nothing on success and
\* otherwise with one byte that tells the kinds of failure apart: the byte
\* sent when rma_try_authcode returns EC_ERROR_ACCESS_DENIED differs from the
\* one sent for EC_ERROR_INVAL, and both differ from the one for a bad length.
C14_VerifyReplyKinds ==
    cmd = "process_response" =>
        /\ (rc = VENDOR_RC_SUCCESS => response.size = 0)
        /\ (rc # VENDOR_RC_SUCCESS => response.size = 1 /\ response.err = rc)
        /\ (rv = EC_ERROR_ACCESS_DENIED =>
               /\ response.err # process_response_reply([rv |-> EC_ERROR_INVAL]).response.err
               /\ response.err # VENDOR_RC_BOGUS_ARGS)

\* C15 as stated: nothing printed on the console is the stored authcode.
C15_NoSecretOnConsole ==
    \A i \in 1..Len(console) :
        ~NoAuthcode => console[i].data # Prefix(authcode, RMA_AUTHCODE_CHARS)

\* The challenge record a server reads from a challenge text.
ServerRecord(text) == base32_decode_crc(text, RMA_CHALLENGE_SIZE, CHALLENGE_CRC_EVERY)

\* The code a correct server holding the private key s computes from a
\* challenge text: base-32 of the first 40 bits of the HMAC, keyed by
\* X25519(s, device_pub_key), over the record bytes after the first.
ServerAuthcode(text, s) ==
    LET bytes == ServerRecord(text)
        pub == SubSeq(bytes, 2, 1 + KEY_SIZE)
        shared == X25519(s, pub)
        tag == get_hmac_sha256(shared, SubSeq(bytes, 2, RMA_CHALLENGE_SIZE))
    IN  Prefix(base32_encode_plain(RMA_AUTHCODE_BUF_SIZE, tag, RMA_AUTHCODE_CHARS),
               RMA_AUTHCODE_CHARS)

\* C16: for every board id, device id and server key pair, the authcode
\* stored by a successful rma_create_challenge equals the code a correct
\* server computes from the emitted challenge, the MAC input being the
\* record bytes after the leading version_key_id byte.
C16_ServerRoundTrip ==
    (op = "create" /\ rv = EC_SUCCESS) =>
        Prefix(authcode, RMA_AUTHCODE_CHARS)
            = ServerAuthcode(Prefix(challenge, RMA_CHALLENGE_CHARS), server_private_key)

\* A successful create on a device that differs from the default one in its
\* board, its chip id and its server key, after an earlier session.
C16_Witness ==
    /\ op = "create" /\ rv = EC_SUCCESS
    /\ board_type # DefaultBoardType /\ unique_id # DefaultUniqueId
    /\ server_private_key # DefaultServerKey
    /\ oldCodes # {}
    /\ ServerRecord(Prefix(challenge, RMA_CHALLENGE_CHARS))[1]
           = RMA_CHALLENGE_VKID_BYTE(RMA_CHALLENGE_VERSION, server_key_id)

\* The device_id field stated from the chip id: the id itself, zero filled,
\* when it is at most 8 bytes long, else the first 8 bytes of HMAC(id, id).
IdentityOfChip(uid) ==
    IF Len(uid) <= DEVICE_ID_SIZE
        THEN uid \o Zeroed(DEVICE_ID_SIZE - Len(uid))
    ELSE SubSeq(get_hmac_sha256(uid, uid), 1, DEVICE_ID_SIZE)

\* C17: across successful rma_create_challenge calls on one device the
\* board_id and device_id fields of the challenge record are identical and
\* depend only on the board id and the chip unique id: board_id is the board
\* type, device_id is the unique id with zero fill when it is at most 8
\* bytes long and the first 8 bytes of HMAC(id, id) when it is longer.
C17_IdentityFields ==
    /\ [](record # NoRecord =>
            /\ record.board_id = board_type
            /\ record.device_id = IdentityOfChip(unique_id))
    /\ [][(record # NoRecord /\ record' # NoRecord) =>
            /\ record'.board_id = record.board_id
            /\ record'.device_id = record.device_id]_vars

\* A second successful create, with another key pair, on a chip whose id is
\* longer than the device_id field.
C17_Witness ==
    /\ op = "create" /\ rv = EC_SUCCESS
    /\ oldCodes # {}
    /\ Len(unique_id) > DEVICE_ID_SIZE
    /\ record.device_id = hash_buffer(DEVICE_ID_SIZE, unique_id)

\* C20: when rma_create_challenge returns, on success or failure, no working
\* buffer still holds the ephemeral private key or the shared secret.
C20_NoSecretLeftBehind ==
    op = "create" =>
        \A k \in Keys : locals.temp # PrivateKey(k) /\ locals.secret # SharedSecret(k)

\* C18: under every interleaving of two rma_try_authcode executions,
\* tries_left never goes below 0 and no more than MAX_AUTHCODE_TRIES codes
\* are compared against one challenge.
C18_TriesNeverRace ==
    tries_left >= 0 /\ compared <= MAX_AUTHCODE_TRIES

\* Some context is inside rma_create_challenge, past its first statement.
CreateInProgress == \E p \in Procs : InCreate(p) /\ pc[p] # "c89"

\* C19: at every intermediate point of an rma_create_challenge execution the
\* session another context sees is idle: rma_get_challenge yields no
\* challenge string, and no code can be compared or accepted.
C19_PartialStateIsIdle ==
    CreateInProgress => IsEmptyStr(rma_get_challenge) /\ ~Armed

\* C21: rma_try_authcode on an armed session (tries_left = n > 0, authcode
\* stored) with a code that differs from the authcode returns
\* EC_ERROR_INVAL and leaves tries_left = n - 1; the challenge and the
\* authcode are unchanged when n - 1 > 0 and all zero when n - 1 = 0.
C21_MismatchStep ==
    [][(op' = "try" /\ Armed /\ arg' # Prefix(authcode, RMA_AUTHCODE_CHARS)) =>
          /\ rv' = EC_ERROR_INVAL
          /\ tries_left' = tries_left - 1
          /\ (tries_left - 1 > 0 => (challenge' = challenge /\ authcode' = authcode))
          /\ (tries_left - 1 = 0 => (AllZero(challenge') /\ AllZero(authcode')))]_vars

\* The third wrong code in a row has used the last try and cleared the buffers.
C21_Witness ==
    /\ op = "try" /\ rv = EC_ERROR_INVAL /\ arg = WrongCode
    /\ invalidRun = MAX_AUTHCODE_TRIES /\ compared = MAX_AUTHCODE_TRIES
    /\ tries_left = 0 /\ AllZero(challenge) /\ AllZero(authcode)

\* C22: whenever rma_create_challenge returns EC_SUCCESS, whatever the
\* session was before the call, tries_left is MAX_AUTHCODE_TRIES and the
\* challenge and the authcode are non-empty.
C22_SuccessArms ==
    (op = "create" /\ rv = EC_SUCCESS) =>
        /\ tries_left = MAX_AUTHCODE_TRIES
        /\ ~IsEmptyStr(challenge)
        /\ ~IsEmptyStr(authcode)

\* A successful call that found what a failed one had left behind: a
\* challenge, no authcode and no tries.
C22_Witness ==
    /\ op = "create" /\ rv = EC_SUCCESS
    /\ before.challenge /\ ~before.authcode /\ before.tries_left = 0
    /\ tries_left = MAX_AUTHCODE_TRIES

\* C23: rma_try_authcode returns EC_ERROR_ACCESS_DENIED exactly when
\* tries_left is 0 or the authcode is empty, and such a call changes
\* nothing: tries_left, the challenge, the authcode and last_challenge_time
\* are what they were.
C23_DeniedChangesNothing ==
    [][op' = "try" =>
          /\ (rv' = EC_ERROR_ACCESS_DENIED <=> (OutOfTries \/ NoAuthcode))
          /\ (rv' = EC_ERROR_ACCESS_DENIED =>
                 /\ tries_left' = tries_left
                 /\ challenge' = challenge
                 /\ authcode' = authcode
                 /\ last_challenge_time' = last_challenge_time)]_vars

\* A call denied for want of an authcode while tries are left.
C23_Witness ==
    /\ op = "try" /\ rv = EC_ERROR_ACCESS_DENIED
    /\ tries_left > 0 /\ IsEmptyStr(authcode)
    /\ arg = ZeroCode

\* C24: last_challenge_time is 0 at boot, so every rma_create_challenge
\* call made less than CHALLENGE_INTERVAL after boot returns
\* EC_ERROR_TIMEOUT, and the first call at or after CHALLENGE_INTERVAL is
\* not rate limited.
C24_BootRateLimit ==
    [][op' = "create" =>
          /\ (now < CHALLENGE_INTERVAL =>
                 (rv' = EC_ERROR_TIMEOUT /\ last_challenge_time' = 0))
          /\ ((now >= CHALLENGE_INTERVAL /\ last_challenge_time = 0) =>
                 rv' # EC_ERROR_TIMEOUT)]_vars

\* A call in the last second of the boot window has been refused.
C24_Witness ==
    /\ op = "create" /\ rv = EC_ERROR_TIMEOUT
    /\ now = CHALLENGE_INTERVAL - SECOND
    /\ last_challenge_time = 0 /\ lastSuccessTime = -1

\* C25: an armed session does not expire: after a successful
\* rma_create_challenge, however much time has passed, rma_try_authcode
\* with the authcode it stored returns EC_SUCCESS, provided that since then
\* rma_create_challenge has not been called, fewer than MAX_AUTHCODE_TRIES
\* calls have mismatched and the code has not been accepted already.
C25_NoExpiry ==
    [][(/\ op' = "try" /\ arg' = curCode
        /\ fresh /\ verified = 0 /\ invalidRun < MAX_AUTHCODE_TRIES) =>
          rv' = EC_SUCCESS]_vars

\* The code is accepted a whole CHALLENGE_INTERVAL after it was issued, on
\* the last try.
C25_Witness ==
    /\ op = "try" /\ rv = EC_SUCCESS /\ arg = curCode
    /\ fresh /\ compared = MAX_AUTHCODE_TRIES
    /\ now - lastSuccessTime >= CHALLENGE_INTERVAL

\* A call of rma_create_challenge that returns EC_SUCCESS.
CreateSucceeds == CreateChallenge /\ rv' = EC_SUCCESS

\* C26: in every reachable state, once the time is at least
\* last_challenge_time + CHALLENGE_INTERVAL, rma_create_challenge can
\* succeed, and it does whenever no collaborator fails: it returns
\* EC_SUCCESS and the session is armed.  Nothing leaves the module unable
\* to issue a challenge.
C26_Recoverable ==
    /\ [](now - last_challenge_time >= CHALLENGE_INTERVAL => ENABLED CreateSucceeds)
    /\ [][(/\ op' = "create" /\ failed' = "none"
           /\ now - last_challenge_time >= CHALLENGE_INTERVAL) =>
             (rv' = EC_SUCCESS /\ Armed')]_vars

\* A second challenge is issued exactly CHALLENGE_INTERVAL after the first,
\* whose session had ended with no tries left.
C26_Witness ==
    /\ op = "create" /\ rv = EC_SUCCESS /\ Armed
    /\ oldCodes # {}
    /\ before.tries_left = 0 /\ ~before.authcode /\ ~before.challenge
    /\ now = 2 * CHALLENGE_INTERVAL

\* C27: with calls made one at a time, 0 <= tries_left <= MAX_AUTHCODE_TRIES
\* in every reachable state; tries_left increases only when
\* rma_create_challenge returns EC_SUCCESS, to MAX_AUTHCODE_TRIES, and
\* decreases only in rma_try_authcode, by 1 on a mismatch or to 0 on success.
C27_TriesRange ==
    /\ [](0 <= tries_left /\ tries_left <= MAX_AUTHCODE_TRIES)
    /\ [][/\ tries_left' > tries_left =>
                (op' = "create" /\ rv' = EC_SUCCESS /\ tries_left' = MAX_AUTHCODE_TRIES)
          /\ tries_left' < tries_left =>
                /\ op' = "try"
                /\ \/ rv' = EC_ERROR_INVAL /\ tries_left' = tries_left - 1
                   \/ rv' = EC_SUCCESS /\ tries_left' = 0]_vars

\* The right code after one wrong one: tries_left has gone 3, 2, 0.
C27_Witness ==
    /\ op = "try" /\ rv = EC_SUCCESS
    /\ compared = 2 /\ tries_left = 0

\* C28: between two consecutive successful rma_create_challenge calls at
\* most MAX_AUTHCODE_TRIES rma_try_authcode calls compare a code with the
\* authcode (return EC_ERROR_INVAL or EC_SUCCESS), and up to time T at most
\* MAX_AUTHCODE_TRIES * (T \div CHALLENGE_INTERVAL + 1) do, failed and rate
\* limited rma_create_challenge calls included.
C28_GuessBudget ==
    /\ compared <= MAX_AUTHCODE_TRIES
    /\ totalCompared <= MAX_AUTHCODE_TRIES * ((now \div CHALLENGE_INTERVAL) + 1)

\* Both challenges that can have been issued by now were used up, a call of
\* rma_create_challenge has failed since, and a further code is refused.
C28_Witness ==
    /\ op = "try" /\ rv = EC_ERROR_ACCESS_DENIED
    /\ compared = MAX_AUTHCODE_TRIES
    /\ totalCompared = MAX_AUTHCODE_TRIES * (now \div CHALLENGE_INTERVAL)
    /\ now = 2 * CHALLENGE_INTERVAL
    /\ ~fresh

\* C29: rma_try_authcode returns EC_SUCCESS only if the submitted bytes are
\* the authcode produced by the most recent successful
\* rma_create_challenge, tries_left > 0, and rma_create_challenge has not
\* been called, with any outcome, since that authcode was stored; never
\* when the authcode buffer is all zero, eight zero bytes included.
C29_AcceptanceSound ==
    [][(op' = "try" /\ rv' = EC_SUCCESS) =>
          /\ arg' = curCode
          /\ arg' = Prefix(authcode, RMA_AUTHCODE_CHARS)
          /\ tries_left > 0
          /\ fresh
          /\ ~AllZero(authcode)]_vars

\* Eight zero bytes are refused after a later call of rma_create_challenge
\* has cleared the authcode of an issued challenge and left it its tries.
C29_Witness ==
    /\ op = "try" /\ arg = ZeroCode /\ rv = EC_ERROR_ACCESS_DENIED
    /\ curCode # NoCode /\ ~fresh /\ verified = 0
    /\ AllZero(authcode) /\ tries_left = MAX_AUTHCODE_TRIES

\* C30: after a rma_create_challenge call that fails on the rate limit or
\* on read_board_id the authcode is all zero and tries_left is what it was;
\* from then on every rma_try_authcode call returns EC_ERROR_ACCESS_DENIED
\* and leaves tries_left alone, until rma_create_challenge next succeeds.
C30_FailedCreateDisarms ==
    [][/\ (op' = "create" /\ (rv' = EC_ERROR_TIMEOUT \/ failed' = "read_board_id")) =>
              (AllZero(authcode') /\ tries_left' = tries_left)
       /\ (op' = "try" /\ ~fresh) =>
              (rv' = EC_ERROR_ACCESS_DENIED /\ tries_left' = tries_left)]_vars

\* The code of the challenge issued last is refused, with two tries left,
\* because a later call of rma_create_challenge failed.
C30_Witness ==
    /\ op = "try" /\ arg = curCode /\ rv = EC_ERROR_ACCESS_DENIED
    /\ ~fresh /\ tries_left = MAX_AUTHCODE_TRIES - 1
    /\ AllZero(authcode)
====
